---- MODULE Spec2Model ----
(***************************************************************************)
(* Thoth SLO reporter: collection of SLI metrics (app.py), evaluation and *)
(* week-over-week report of the User-API SLI (sli_user_api.py), and the   *)
(* run that stores, pushes and mails them.                                 *)
(*                                                                         *)
(* Numbers.  A Python float is modelled as an exact rational               *)
(* [tag |-> "float", num, den] in lowest terms, the float NaN as the       *)
(* value NaN, and the string "ErrorMetricRetrieval" as Unavailable.        *)
(* All three are records of one shape so that they can be compared.        *)
(***************************************************************************)
EXTENDS Integers, Sequences, FiniteSets, TLC

\* Bounds of the model.
MaxSample == 1
MaxSeriesLen == 1
MaxRaw == 4
MaxDays == 2
MaxRangeLen == 2
MaxRangeSample == 2

----------------------------------------------------------------------------
\* Floats, NaN and the error sentinel

RECURSIVE GCD(_, _)
GCD(a, b) ==
    IF b = 0 THEN a ELSE GCD(b, a % b)

IAbs(n) ==
    IF n < 0 THEN -n ELSE n

Float(n, d) ==
    LET g == GCD(IAbs(n), d)
    IN  [tag |-> "float", num |-> n \div g, den |-> d \div g]

NaN ==
    [tag |-> "nan", num |-> 0, den |-> 1]

Unavailable ==
    [tag |-> "ErrorMetricRetrieval", num |-> 0, den |-> 1]

ZeroDivisionError ==
    [tag |-> "ZeroDivisionError", num |-> 0, den |-> 1]

Zero ==
    Float(0, 1)

Hundred ==
    Float(100, 1)

IsFloat(x) ==
    x.tag = "float"

\* Python's x != y: a comparison with NaN is never an equality, so
\* x != nan is True for every x, nan included.
PyNe(x, y) ==
    IF x.tag = "nan" \/ y.tag = "nan" THEN TRUE ELSE x # y

\* Python's x > y on floats: False when either side is NaN.
PyGt(x, y) ==
    /\ IsFloat(x)
    /\ IsFloat(y)
    /\ x.num * y.den > y.num * x.den

PyLt(x, y) ==
    PyGt(y, x)

\* Arithmetic propagates NaN (and a fault already raised).
PySub(x, y) ==
    IF ~IsFloat(x) THEN x
    ELSE IF ~IsFloat(y) THEN y
    ELSE Float(x.num * y.den - y.num * x.den, x.den * y.den)

PyMul(x, y) ==
    IF ~IsFloat(x) THEN x
    ELSE IF ~IsFloat(y) THEN y
    ELSE Float(x.num * y.num, x.den * y.den)

\* x / y: float division by zero raises ZeroDivisionError.
PyDiv(x, y) ==
    IF x.tag = "ZeroDivisionError" THEN x
    ELSE IF IsFloat(y) /\ y.num = 0 THEN ZeroDivisionError
    ELSE IF ~IsFloat(x) THEN x
    ELSE IF ~IsFloat(y) THEN y
    ELSE Float(IF y.num < 0 THEN -(x.num * y.den) ELSE x.num * y.den,
               x.den * IAbs(y.num))

PyAbs(x) ==
    IF IsFloat(x) THEN Float(IAbs(x.num), x.den) ELSE x

\* The integer nearest to n / d (d > 0), ties to the even one, as round() does.
RoundHalfEven(n, d) ==
    LET a == IAbs(n)
        q == a \div d
        r == a % d
        k == IF 2 * r < d THEN q
             ELSE IF 2 * r > d THEN q + 1
             ELSE IF q % 2 = 0 THEN q ELSE q + 1
    IN  IF n < 0 THEN -k ELSE k

\* x rounded to 3 decimals, in thousandths.
Thousandths(x) ==
    RoundHalfEven(x.num * 1000, x.den)

\* round(x, 3): NaN stays NaN.
PyRound3(x) ==
    IF IsFloat(x) THEN Float(Thousandths(x), 1000) ELSE x

----------------------------------------------------------------------------
\* "{:.3f}".format(x): the characters of x with three decimals

Digit(n) ==
    CASE n = 0 -> "0" [] n = 1 -> "1" [] n = 2 -> "2" [] n = 3 -> "3"
      [] n = 4 -> "4" [] n = 5 -> "5" [] n = 6 -> "6" [] n = 7 -> "7"
      [] n = 8 -> "8" [] n = 9 -> "9"

RECURSIVE Digits(_)
Digits(n) ==
    IF n < 10 THEN <<Digit(n)>> ELSE Digits(n \div 10) \o <<Digit(n % 10)>>

\* A negative number is written with its own leading "-".
Format3f(x) ==
    LET t == Thousandths(x)
        a == IAbs(t)
        sign == IF x.num < 0 THEN <<"-">> ELSE <<>>
    IN  sign \o Digits(a \div 1000) \o <<".">>
             \o <<Digit((a \div 100) % 10), Digit((a \div 10) % 10), Digit(a % 10)>>

----------------------------------------------------------------------------
\* SLIUserAPI (sli_user_api.py)

SLI_NAME ==
    "user_api"

\* The keys of _USER_API_MEASUREMENT_UNIT, in declaration order.
sli_columns ==
    <<"avg_percentage_successfull_request", "avg_up_time">>

\* SLIBase.default_columns: the period date and the epoch timestamp.
default_columns ==
    <<"datetime", "timestamp">>

total_columns ==
    default_columns \o sli_columns

Quantities ==
    <<"avg_total_request", "avg_successfull_request">>

SeqRange(s) ==
    {s[k] : k \in 1..Len(s)}

MeasurementName(c) ==
    IF c = "avg_percentage_successfull_request"
    THEN "Successfull requests User-API (avg)"
    ELSE "Uptime User-API (avg)"

\* The "change" entry of a reportable quantity: absent, a formatted string
\* (its characters) or a bare number.
NoChange ==
    [kind |-> "undefined", text |-> <<>>, num |-> Zero]

ChangeStr(s) ==
    [kind |-> "str", text |-> s, num |-> Zero]

ChangeNum(x) ==
    [kind |-> "float", text |-> <<>>, num |-> x]

\* results[quantity]: the sample, or np.nan for the error sentinel.
Results(sli) ==
    [q \in SeqRange(Quantities) |->
        IF PyNe(sli[q], Unavailable) THEN sli[q] ELSE NaN]

\* all(single_quantity != np.nan for single_quantity in results.values())
AllNotNan(results) ==
    \A q \in DOMAIN results : PyNe(results[q], NaN)

\* Variant: the ratio without the guard on the denominator.
Percentage_Unguarded(results) ==
    PyDiv(results["avg_successfull_request"], results["avg_total_request"])

\* The guarded ratio of successful to total requests.
Percentage(results) ==
    IF PyGt(results["avg_total_request"], Zero)
    THEN PyDiv(results["avg_successfull_request"], results["avg_total_request"])
    ELSE Zero

PercentageValue(sli) ==
    LET results == Results(sli)
    IN  IF AllNotNan(results)
        THEN PyAbs(PyRound3(PyMul(Percentage(results), Hundred)))
        ELSE NaN

UpTimeValue(sli) ==
    IF PyNe(sli["avg_up_time"], Unavailable)
    THEN PyAbs(PyRound3(PyMul(sli["avg_up_time"], Hundred)))
    ELSE NaN

_evaluate_sli(sli) ==
    [c \in SeqRange(sli_columns) |->
        [value |-> IF c = "avg_percentage_successfull_request"
                   THEN PercentageValue(sli)
                   ELSE UpTimeValue(sli),
         name |-> MeasurementName(c),
         measurement_unit |-> "%",
         change |-> NoChange]]

\* The outcomes of retrieve_thoth_sli_from_ceph followed by pd.read_csv:
\* a row of last week's values, no object under the key, or an object that
\* does not parse into a row.
RetrievedRow(row) ==
    [outcome |-> "row", row |-> row]

NoRow ==
    [c \in SeqRange(sli_columns) |-> NaN]

NotFound ==
    [outcome |-> "not_found", row |-> NoRow]

Unreadable ==
    [outcome |-> "unreadable", row |-> NoRow]

\* The change of one column against last week's value.
Change(diff) ==
    IF PyGt(diff, Zero) THEN ChangeStr(<<"+">> \o Format3f(diff))
    ELSE IF PyLt(diff, Zero) THEN ChangeStr(<<"-">> \o Format3f(diff))
    ELSE ChangeNum(diff)

\* _report_sli raises when there is no row to read: neither the retrieval
\* nor read_csv nor the [0] lookup is guarded.
_report_sli(sli, retrieved) ==
    LET html_inputs == _evaluate_sli(sli)
    IN  IF retrieved.outcome # "row"
        THEN [raised |-> TRUE, html_inputs |-> html_inputs]
        ELSE [raised |-> FALSE,
              html_inputs |->
                [c \in SeqRange(sli_columns) |->
                    [html_inputs[c] EXCEPT
                        !.change = Change(PySub(html_inputs[c].value, retrieved.row[c]))]]]

----------------------------------------------------------------------------
\* The registry of indicators and the metric backend (app.py, sli_report.py)

\* A second registered indicator (SLILearningRate), reduced to one instant
\* (plain string) query and one column: collection, storage, push and report
\* assembly treat every registered indicator alike.
OTHER_SLI_NAME ==
    "learning_rate"

\* sli_report.report_sli_context, in registration order.
report_sli_context ==
    <<SLI_NAME, OTHER_SLI_NAME>>

\* The query names an indicator declares (its _query_sli), in order.
QueryNames(sli_name) ==
    IF sli_name = SLI_NAME
    THEN <<"avg_total_request", "avg_successfull_request", "avg_up_time">>
    ELSE <<"average_learning_rate">>

\* requires_range: true for the dict-style queries of the User-API SLI.
requires_range(sli_name, query_name) ==
    /\ sli_name = SLI_NAME
    /\ query_name \in {"avg_total_request", "avg_successfull_request"}

\* sli_report.report_sli_context_columns[metric_class]
csv_columns(metric_class) ==
    IF metric_class = SLI_NAME
    THEN total_columns
    ELSE default_columns \o <<"average_learning_rate">>

RECURSIVE PairsFrom(_)
PairsFrom(n) ==
    IF n > Len(report_sli_context) THEN <<>>
    ELSE [j \in 1..Len(QueryNames(report_sli_context[n])) |->
            <<report_sli_context[n], QueryNames(report_sli_context[n])[j]>>]
         \o PairsFrom(n + 1)

\* Every (indicator, query) in the order collect_metrics visits them.
AllPairs ==
    PairsFrom(1)

\* What the backend hands back for one query: an exception, an empty list,
\* an entry without usable values, or the values of the first series.
Series ==
    UNION {[1..n -> 0..MaxSample] : n \in 0..MaxSeriesLen}

Responses(sli_name, query_name) ==
    {[kind |-> f, values |-> <<>>] : f \in {"raise", "empty", "malformed"}}
    \cup IF requires_range(sli_name, query_name)
         THEN {[kind |-> "data", values |-> v] : v \in Series}
         ELSE {[kind |-> "data", values |-> <<v>>] : v \in 0..MaxSample}

NoResponse ==
    [kind |-> "none", values |-> <<>>]

DryRunResponse ==
    [kind |-> "dry run", values |-> <<0>>]

RECURSIVE Sum(_)
Sum(s) ==
    IF s = <<>> THEN 0 ELSE Head(s) + Sum(Tail(s))

\* [float(v[1]) for v in values if float(v[1]) > 0]
RECURSIVE PositiveOnly(_)
PositiveOnly(s) ==
    IF s = <<>> THEN <<>>
    ELSE IF Head(s) > 0 THEN <<Head(s)>> \o PositiveOnly(Tail(s))
    ELSE PositiveOnly(Tail(s))

\* utils.manipulate_retrieved_metrics_vector with action "average":
\* the mean, and a defined 0 for an empty vector.
manipulate_retrieved_metrics_vector(metrics_vector) ==
    IF metrics_vector = <<>> THEN Zero
    ELSE Float(Sum(metrics_vector), Len(metrics_vector))

\* Variant: an empty result list is taken as the value 0.
QueryResult_EmptyAsZero(dry_run, sli_name, query_name, metric_data) ==
    IF dry_run THEN Float(metric_data.values[1], 1)
    ELSE IF metric_data.kind = "empty" THEN Zero
    ELSE IF metric_data.kind # "data" THEN Unavailable
    ELSE IF requires_range(sli_name, query_name)
    THEN manipulate_retrieved_metrics_vector(PositiveOnly(metric_data.values))
    ELSE Float(metric_data.values[1], 1)

\* The body of the try block for one query: the collected entry.
QueryResult(dry_run, sli_name, query_name, metric_data) ==
    IF dry_run THEN Float(metric_data.values[1], 1)
    ELSE IF metric_data.kind # "data" THEN Unavailable
    ELSE IF requires_range(sli_name, query_name)
    THEN manipulate_retrieved_metrics_vector(PositiveOnly(metric_data.values))
    ELSE Float(metric_data.values[1], 1)

----------------------------------------------------------------------------
\* Sinks

\* The columns of the data frame built from df_method's output: the declared
\* ones, or one appended, one missing, or two swapped.
ComputedColumns(metric_class) ==
    LET c == csv_columns(metric_class)
    IN  { c,
          c \o <<"extra">>,
          SubSeq(c, 1, Len(c) - 1),
          <<c[2], c[1]>> \o SubSeq(c, 3, Len(c)) }

\* Variant: the columns are compared as sets, so their order is not checked.
ColumnsMismatch_Unordered(columns, metric_class) ==
    {columns[n] : n \in 1..Len(columns)}
        # {csv_columns(metric_class)[n] : n \in 1..Len(csv_columns(metric_class))}

\* if [c for c in metrics_df.columns.values] != csv_columns: raise
ColumnsMismatch(columns, metric_class) ==
    columns # csv_columns(metric_class)

\* Variant: the sentinel is published as 0 instead of being skipped.
GaugesSet_SentinelAsZero(periodic_metrics) ==
    [p \in DOMAIN periodic_metrics |->
        IF periodic_metrics[p] # Unavailable THEN periodic_metrics[p] ELSE Zero]

\* The gauges push_thoth_sli_periodic_metrics sets.
GaugesSet(periodic_metrics) ==
    [p \in {q \in DOMAIN periodic_metrics : periodic_metrics[q] # Unavailable}
        |-> periodic_metrics[p]]

Days ==
    <<"Monday", "Tuesday", "Wednesday", "Thursday", "Friday", "Saturday", "Sunday">>

\* configuration.email_day
email_day ==
    "Monday"

----------------------------------------------------------------------------
\* Report assembly (generate_email)

\* Last week's row as the pipeline reads it back.
LastWeekRows(sli_name) ==
    IF sli_name = SLI_NAME
    THEN {RetrievedRow(r) : r \in [SeqRange(sli_columns) -> {Zero, Hundred}]}
    ELSE {RetrievedRow(NoRow)}

Retrievals(sli_name) ==
    LastWeekRows(sli_name) \cup {NotFound, Unreadable}

\* report_sli_context[sli_name]["report_method"](metric_data, ceph_sli)
report_method(sli_name, sli_metrics, retrieved) ==
    IF sli_name = SLI_NAME
    THEN _report_sli([q \in SeqRange(QueryNames(SLI_NAME)) |-> sli_metrics[<<SLI_NAME, q>>]],
                     retrieved)
    ELSE [raised |-> retrieved.outcome # "row", html_inputs |-> <<>>]

\* The sections of the message, one per indicator in registry order; the
\* first report_method that raises makes generate_email raise.
generate_email(sli_metrics, retrieved) ==
    LET section(n) == report_method(report_sli_context[n], sli_metrics,
                                    retrieved[report_sli_context[n]])
        N == Len(report_sli_context)
    IN  [raised |-> \E n \in 1..N : section(n).raised,
         message |-> [n \in 1..N |->
                        [sli_name |-> report_sli_context[n],
                         html_inputs |-> section(n).html_inputs]]]

----------------------------------------------------------------------------
\* State

VARIABLES
    DRY_RUN,                  \* _DRY_RUN
    ONLY_STORE_ON_CEPH,       \* _ONLY_STORE_ON_CEPH
    EVALUATION_METRICS_DAYS,  \* main's EVALUATION_METRICS_DAYS
    today,                    \* the weekday of utcnow(), an index of Days
    pc,                       \* where main / run_slo_reporter stands
    i,                        \* main's loop variable
    day_of_week,              \* the run's day_of_week
    k,                        \* position of the loop in progress
    metric_data,              \* collect_metrics' local, the last response
    collected_info,           \* (indicator, query) -> sample
    prometheus_connects,      \* PrometheusConnect objects built in this run
    backend_queries,          \* pairs sent to custom_query(_range) in this run
    metrics_df,               \* the last data frame built: its class and columns
    writes,                   \* rows written in this run: sink, class, columns
    write_attempts,           \* store_thoth_sli_on_ceph calls of this run
    gauges,                   \* thoth_weekly_sli label -> value
    push_calls,               \* push_to_gateway calls of this run
    pushed,                   \* the gauges the gateway was handed
    message,                  \* the assembled report sections
    reports,                  \* generate_email calls that returned
    generate_calls,           \* generate_email calls
    emails_sent,              \* sendmail calls that returned
    error,                    \* the exception that ended main, or "none"
    sli,                      \* argument of a direct SLIUserAPI call
    retrieved,                \* what it reads from the snapshot store
    html_inputs,              \* its result
    call,                     \* which method was called
    backend_series            \* the range series the backend holds for user_api

config_vars ==
    <<DRY_RUN, ONLY_STORE_ON_CEPH, EVALUATION_METRICS_DAYS, today>>

collect_vars ==
    <<metric_data, collected_info, prometheus_connects, backend_queries>>

sink_vars ==
    <<metrics_df, writes, write_attempts, gauges, push_calls, pushed>>

mail_vars ==
    <<message, reports, generate_calls, emails_sent>>

sli_vars ==
    <<sli, retrieved, html_inputs, call, backend_series>>

vars ==
    <<config_vars, pc, i, day_of_week, k, collect_vars, sink_vars, mail_vars,
      error, sli_vars>>

NoFrame ==
    [metric_class |-> "none", columns |-> <<>>]

NoMap ==
    [p \in {} |-> Zero]

NoSeries ==
    [avg_total_request |-> <<>>, avg_successfull_request |-> <<>>]

NoSLICall ==
    /\ sli = NoMap
    /\ retrieved = NotFound
    /\ html_inputs = NoMap
    /\ call = "none"
    /\ backend_series = NoSeries

Init ==
    /\ DRY_RUN \in BOOLEAN
    /\ ONLY_STORE_ON_CEPH \in BOOLEAN
    /\ EVALUATION_METRICS_DAYS \in 0..MaxDays
    /\ today \in 1..Len(Days)
    /\ pc = "main"
    /\ i = 0
    /\ day_of_week = "unset"
    /\ k = 0
    /\ metric_data = NoResponse
    /\ collected_info = NoMap
    /\ prometheus_connects = 0
    /\ backend_queries = {}
    /\ metrics_df = NoFrame
    /\ writes = {}
    /\ write_attempts = {}
    /\ gauges = NoMap
    /\ push_calls = 0
    /\ pushed = {}
    /\ message = <<>>
    /\ reports = 0
    /\ generate_calls = 0
    /\ emails_sent = 0
    /\ error = "none"
    /\ NoSLICall

----------------------------------------------------------------------------
\* main and run_slo_reporter (app.py)

\* The refusal with the flag taken the other way round.
RefusesDays_Inverted(days, only_store) ==
    days > 1 /\ only_store

\* main refuses to evaluate several days unless the run only stores.
RefusesDays(days, only_store) ==
    days > 1 /\ ~only_store

Main ==
    /\ pc = "main"
    /\ IF RefusesDays(EVALUATION_METRICS_DAYS, ONLY_STORE_ON_CEPH)
       THEN pc' = "raised" /\ error' = "config"
       ELSE pc' = "loop" /\ error' = error
    /\ UNCHANGED <<config_vars, i, day_of_week, k, collect_vars, sink_vars,
                   mail_vars, sli_vars>>

\* _END_TIME = utcnow() - i days; day_of_week = _END_TIME.strftime("%A")
DayOfRun(n) ==
    Days[((today - 1 - n) % Len(Days)) + 1]

LoopNext ==
    /\ pc = "loop"
    /\ i < EVALUATION_METRICS_DAYS
    /\ day_of_week' = DayOfRun(i)
    /\ pc' = "collect_start"
    /\ UNCHANGED <<config_vars, i, k, collect_vars, sink_vars, mail_vars,
                   error, sli_vars>>

LoopDone ==
    /\ pc = "loop"
    /\ i >= EVALUATION_METRICS_DAYS
    /\ pc' = "done"
    /\ UNCHANGED <<config_vars, i, day_of_week, k, collect_vars, sink_vars,
                   mail_vars, error, sli_vars>>

\* collect_metrics up to its loop: the client is built unless dry-run.
CollectStart ==
    /\ pc = "collect_start"
    /\ prometheus_connects' = IF ~DRY_RUN THEN 1 ELSE 0
    /\ collected_info' = NoMap
    /\ k' = 1
    /\ pc' = "collect"
    /\ UNCHANGED <<config_vars, i, day_of_week, metric_data, backend_queries,
                   sink_vars, mail_vars, error, sli_vars>>

\* One iteration of collect_metrics' inner loop, try block and handler.
CollectQuery ==
    /\ pc = "collect"
    /\ k <= Len(AllPairs)
    /\ LET pair == AllPairs[k]
       IN  /\ IF DRY_RUN
              THEN /\ metric_data' = DryRunResponse
                   /\ backend_queries' = backend_queries
              ELSE /\ metric_data' \in Responses(pair[1], pair[2])
                   /\ backend_queries' = backend_queries \cup {pair}
           /\ collected_info' =
                [p \in DOMAIN collected_info \cup {pair} |->
                    IF p = pair
                    THEN QueryResult(DRY_RUN, pair[1], pair[2], metric_data')
                    ELSE collected_info[p]]
    /\ k' = k + 1
    /\ pc' = IF k = Len(AllPairs) THEN "collected" ELSE "collect"
    /\ UNCHANGED <<config_vars, i, day_of_week, prometheus_connects, sink_vars,
                   mail_vars, error, sli_vars>>

\* Variant: the mail branch does not look at the store-only flag.
AssemblesReport_IgnoresStoreOnly(dry_run, only_store, day) ==
    \/ dry_run
    \/ (~dry_run /\ day = email_day)

\* Whether the run assembles the report: the dry-run preview, or the mail
\* of a run that does not only store, on the email day.
AssemblesReport(dry_run, only_store, day) ==
    \/ dry_run
    \/ (~dry_run /\ ~only_store /\ day = email_day)

\* collect_metrics returns; a dry run goes straight to the preview.
Collected ==
    /\ pc = "collected"
    /\ metric_data' = NoResponse
    /\ k' = 1
    /\ pc' = IF ~DRY_RUN THEN "store"
             ELSE IF AssemblesReport(DRY_RUN, ONLY_STORE_ON_CEPH, day_of_week)
             THEN "generate" ELSE "run_done"
    /\ UNCHANGED <<config_vars, i, day_of_week, collected_info,
                   prometheus_connects, backend_queries, sink_vars, mail_vars,
                   error, sli_vars>>

\* Variant: the private store's call is not guarded, so its failure leaves
\* the function before the public store is tried.
StoreRow_PrivateUnguarded(metric_class, columns, private_ok, public_ok) ==
    [raised |-> ~private_ok,
     attempts |-> IF private_ok
                  THEN {<<"private", metric_class>>, <<"public", metric_class>>}
                  ELSE {<<"private", metric_class>>},
     rows |-> {[sink |-> "private", metric_class |-> metric_class, columns |-> columns]
                 : x \in {y \in {1} : private_ok}}
              \cup
              {[sink |-> "public", metric_class |-> metric_class, columns |-> columns]
                 : x \in {y \in {1} : private_ok /\ public_ok}}]

\* The two guarded store_thoth_sli_on_ceph calls for one row: each failure
\* is logged and passed over.
StoreRow(metric_class, columns, private_ok, public_ok) ==
    [raised |-> FALSE,
     attempts |-> {<<"private", metric_class>>, <<"public", metric_class>>},
     rows |-> {[sink |-> "private", metric_class |-> metric_class, columns |-> columns]
                 : x \in {y \in {1} : private_ok}}
              \cup
              {[sink |-> "public", metric_class |-> metric_class, columns |-> columns]
                 : x \in {y \in {1} : public_ok}}]

\* One iteration of store_sli_periodic_metrics_to_ceph's loop.
StoreIndicator ==
    /\ pc = "store"
    /\ k <= Len(report_sli_context)
    /\ \E columns \in ComputedColumns(report_sli_context[k]) :
          LET metric_class == report_sli_context[k]
          IN  /\ metrics_df' = [metric_class |-> metric_class, columns |-> columns]
              /\ IF ColumnsMismatch(columns, metric_class)
                 THEN /\ pc' = "raised"
                      /\ error' = "schema"
                      /\ UNCHANGED <<k, writes, write_attempts>>
                 ELSE \E private_ok \in BOOLEAN, public_ok \in BOOLEAN :
                      LET stored == StoreRow(metric_class, columns, private_ok, public_ok)
                      IN  /\ write_attempts' = write_attempts \cup stored.attempts
                          /\ writes' = writes \cup stored.rows
                          /\ IF stored.raised
                             THEN pc' = "raised" /\ error' = "ceph" /\ k' = k
                             ELSE /\ error' = error
                                  /\ k' = k + 1
                                  /\ pc' = IF k = Len(report_sli_context)
                                           THEN "push" ELSE "store"
    /\ UNCHANGED <<config_vars, i, day_of_week, collect_vars, gauges,
                   push_calls, pushed, mail_vars, sli_vars>>

\* push_thoth_sli_periodic_metrics inside run_slo_reporter's try: the gauges
\* are set, the registry is pushed once, and a failure is logged.
Push ==
    /\ pc = "push"
    /\ gauges' = GaugesSet(collected_info)
    /\ push_calls' = push_calls + 1
    /\ \E ok \in BOOLEAN : pushed' = IF ok THEN {gauges'} ELSE {}
    /\ pc' = IF AssemblesReport(DRY_RUN, ONLY_STORE_ON_CEPH, day_of_week)
             THEN "generate" ELSE "run_done"
    /\ UNCHANGED <<config_vars, i, day_of_week, k, collect_vars, metrics_df,
                   writes, write_attempts, mail_vars, error, sli_vars>>

\* generate_email: every indicator's report_method reads last week's row.
GenerateEmail ==
    /\ pc = "generate"
    /\ generate_calls' = generate_calls + 1
    /\ \E r \in [SeqRange(report_sli_context) ->
                    UNION {Retrievals(n) : n \in SeqRange(report_sli_context)}] :
          /\ \A n \in SeqRange(report_sli_context) : r[n] \in Retrievals(n)
          /\ LET g == generate_email(collected_info, r)
             IN  IF g.raised
                 THEN /\ pc' = "raised"
                      /\ error' = "snapshot"
                      /\ UNCHANGED <<message, reports>>
                 ELSE /\ message' = g.message
                      /\ reports' = reports + 1
                      /\ error' = error
                      /\ pc' = IF DRY_RUN THEN "preview" ELSE "send"
    /\ UNCHANGED <<config_vars, i, day_of_week, k, collect_vars, sink_vars,
                   emails_sent, sli_vars>>

\* The dry run writes the message to a temporary file and opens it.
Preview ==
    /\ pc = "preview"
    /\ pc' = "run_done"
    /\ UNCHANGED <<config_vars, i, day_of_week, k, collect_vars, sink_vars,
                   mail_vars, error, sli_vars>>

\* send_sli_email: sendmail returns or raises.
SendEmail ==
    /\ pc = "send"
    /\ \E ok \in BOOLEAN :
          IF ok
          THEN emails_sent' = emails_sent + 1 /\ pc' = "run_done" /\ error' = error
          ELSE emails_sent' = emails_sent /\ pc' = "raised" /\ error' = "smtp"
    /\ UNCHANGED <<config_vars, i, day_of_week, k, collect_vars, sink_vars,
                   message, reports, generate_calls, sli_vars>>

\* run_slo_reporter returns to main's loop; the run's objects are dropped.
Return ==
    /\ pc = "run_done"
    /\ pc' = "loop"
    /\ i' = i + 1
    /\ day_of_week' = "unset"
    /\ k' = 0
    /\ collected_info' = NoMap
    /\ prometheus_connects' = 0
    /\ backend_queries' = {}
    /\ metrics_df' = NoFrame
    /\ writes' = {}
    /\ write_attempts' = {}
    /\ gauges' = NoMap
    /\ push_calls' = 0
    /\ pushed' = {}
    /\ message' = <<>>
    /\ UNCHANGED <<config_vars, metric_data, reports, generate_calls,
                   emails_sent, error, sli_vars>>

Next ==
    \/ Main
    \/ LoopNext
    \/ LoopDone
    \/ CollectStart
    \/ CollectQuery
    \/ Collected
    \/ StoreIndicator
    \/ Push
    \/ GenerateEmail
    \/ Preview
    \/ SendEmail
    \/ Return

Spec ==
    Init /\ [][Next]_vars

----------------------------------------------------------------------------
\* SLIUserAPI called directly on every combination of samples and rows

\* Samples passed in: the sentinel, and whole and half values up to MaxRaw.
SLISamples ==
    {Unavailable} \cup {Float(n, d) : n \in 0..MaxRaw, d \in 1..2}

\* Last week's stored values: an empty cell (NaN) or a multiple of 25.
LastWeekValues ==
    {NaN} \cup {Float(25 * j, 1) : j \in 0..MaxRaw}

InitSLI ==
    /\ DRY_RUN = FALSE
    /\ ONLY_STORE_ON_CEPH = FALSE
    /\ EVALUATION_METRICS_DAYS = 0
    /\ today = 1
    /\ pc = "sli"
    /\ i = 0
    /\ day_of_week = "unset"
    /\ k = 0
    /\ metric_data = NoResponse
    /\ collected_info = NoMap
    /\ prometheus_connects = 0
    /\ backend_queries = {}
    /\ metrics_df = NoFrame
    /\ writes = {}
    /\ write_attempts = {}
    /\ gauges = NoMap
    /\ push_calls = 0
    /\ pushed = {}
    /\ message = <<>>
    /\ reports = 0
    /\ generate_calls = 0
    /\ emails_sent = 0
    /\ error = "none"
    /\ sli \in [SeqRange(QueryNames(SLI_NAME)) -> SLISamples]
    /\ retrieved \in {RetrievedRow(r) : r \in [SeqRange(sli_columns) -> LastWeekValues]}
                     \cup {NotFound, Unreadable}
    /\ html_inputs = NoMap
    /\ call = "none"
    /\ backend_series = NoSeries

EvaluateSLI ==
    /\ pc = "sli"
    /\ call = "none"
    /\ html_inputs' = _evaluate_sli(sli)
    /\ call' = "_evaluate_sli"
    /\ UNCHANGED <<config_vars, pc, i, day_of_week, k, collect_vars, sink_vars,
                   mail_vars, error, sli, retrieved, backend_series>>

ReportSLI ==
    /\ pc = "sli"
    /\ call = "none"
    /\ LET r == _report_sli(sli, retrieved)
       IN  /\ html_inputs' = r.html_inputs
           /\ call' = IF r.raised THEN "_report_sli raised" ELSE "_report_sli"
    /\ UNCHANGED <<config_vars, pc, i, day_of_week, k, collect_vars, sink_vars,
                   mail_vars, error, sli, retrieved, backend_series>>

NextSLI ==
    \/ EvaluateSLI
    \/ ReportSLI

SpecSLI ==
    InitSLI /\ [][NextSLI]_vars

----------------------------------------------------------------------------
\* collect_metrics and _evaluate_sli on the range series of user_api, where
\* every sample of successful requests is at most the sample of all requests
\* at the same step

SeriesPairs ==
    UNION {
        {[avg_total_request |-> t, avg_successfull_request |-> s] :
            s \in {x \in [1..Len(t) -> 0..MaxRangeSample] :
                      \A j \in 1..Len(t) : x[j] <= t[j]}}
        : t \in UNION {[1..n -> 0..MaxRangeSample] : n \in 0..MaxRangeLen} }

InitRange ==
    /\ DRY_RUN = FALSE
    /\ ONLY_STORE_ON_CEPH = FALSE
    /\ EVALUATION_METRICS_DAYS = 1
    /\ today = 1
    /\ pc = "range"
    /\ i = 0
    /\ day_of_week = "unset"
    /\ k = 1
    /\ metric_data = NoResponse
    /\ collected_info = NoMap
    /\ prometheus_connects = 1
    /\ backend_queries = {}
    /\ metrics_df = NoFrame
    /\ writes = {}
    /\ write_attempts = {}
    /\ gauges = NoMap
    /\ push_calls = 0
    /\ pushed = {}
    /\ message = <<>>
    /\ reports = 0
    /\ generate_calls = 0
    /\ emails_sent = 0
    /\ error = "none"
    /\ sli = NoMap
    /\ retrieved = NotFound
    /\ html_inputs = NoMap
    /\ call = "none"
    /\ backend_series \in SeriesPairs

\* The response to one query of user_api: the series the backend holds for a
\* range query, any instant value for avg_up_time.
SeriesResponses(query_name) ==
    IF requires_range(SLI_NAME, query_name)
    THEN {[kind |-> "data", values |-> backend_series[query_name]]}
    ELSE {[kind |-> "data", values |-> <<v>>] : v \in 0..MaxSample}

\* One iteration of collect_metrics' inner loop for user_api.
CollectSeries ==
    /\ pc = "range"
    /\ k <= Len(QueryNames(SLI_NAME))
    /\ LET pair == <<SLI_NAME, QueryNames(SLI_NAME)[k]>>
       IN  /\ metric_data' \in SeriesResponses(pair[2])
           /\ backend_queries' = backend_queries \cup {pair}
           /\ collected_info' =
                [p \in DOMAIN collected_info \cup {pair} |->
                    IF p = pair
                    THEN QueryResult(DRY_RUN, pair[1], pair[2], metric_data')
                    ELSE collected_info[p]]
    /\ k' = k + 1
    /\ UNCHANGED <<config_vars, pc, i, day_of_week, prometheus_connects,
                   sink_vars, mail_vars, error, sli, retrieved, html_inputs,
                   call, backend_series>>

\* _evaluate_sli on what was collected for user_api.
EvaluateCollected ==
    /\ pc = "range"
    /\ k > Len(QueryNames(SLI_NAME))
    /\ sli' = [q \in SeqRange(QueryNames(SLI_NAME)) |-> collected_info[<<SLI_NAME, q>>]]
    /\ html_inputs' = _evaluate_sli(sli')
    /\ call' = "_evaluate_sli"
    /\ pc' = "range_done"
    /\ UNCHANGED <<config_vars, i, day_of_week, k, collect_vars, sink_vars,
                   mail_vars, error, retrieved, backend_series>>

NextRange ==
    \/ CollectSeries
    \/ EvaluateCollected

SpecRange ==
    InitRange /\ [][NextRange]_vars

----------------------------------------------------------------------------
\* Properties

Total(m) ==
    m["avg_total_request"]

Success(m) ==
    m["avg_successfull_request"]

PCT ==
    "avg_percentage_successfull_request"

UP ==
    "avg_up_time"

Failures ==
    {"raise", "empty", "malformed"}

\* The numeric result of a query that did not fail, from its response alone:
\* the instant value, or the mean of the strictly positive range values
\* (0 when there is none).
RECURSIVE SumAt(_, _)
SumAt(values, idx) ==
    IF idx = {} THEN 0
    ELSE LET j == CHOOSE x \in idx : TRUE
         IN  values[j] + SumAt(values, idx \ {j})

OwnResult(pair, response) ==
    LET positive == {j \in 1..Len(response.values) : response.values[j] > 0}
    IN  IF ~requires_range(pair[1], pair[2]) THEN Float(response.values[1], 1)
        ELSE IF positive = {} THEN Zero
        ELSE Float(SumAt(response.values, positive), Cardinality(positive))

\* C1: collect_metrics isolates failures per query.  Every iteration adds
\* exactly the entry of its own (indicator, query) pair and leaves the entries
\* collected before untouched; a query whose backend call raised or returned
\* an empty or malformed result gets the sentinel "ErrorMetricRetrieval",
\* every other query gets its own numeric result; no iteration leaves
\* collect_metrics by an exception, and at the return there is one entry for
\* every pair of the registry.
C1_FailureIsolatedPerQuery ==
    /\ [](pc = "collected" => DOMAIN collected_info = SeqRange(AllPairs))
    /\ [][pc = "collect" =>
            /\ pc' \in {"collect", "collected"}
            /\ AllPairs[k] \notin DOMAIN collected_info
            /\ DOMAIN collected_info' = DOMAIN collected_info \cup {AllPairs[k]}
            /\ \A p \in DOMAIN collected_info : collected_info'[p] = collected_info[p]
            /\ ~DRY_RUN =>
                  IF metric_data'.kind \in Failures
                  THEN collected_info'[AllPairs[k]] = Unavailable
                  ELSE /\ metric_data'.kind = "data"
                       /\ IsFloat(collected_info'[AllPairs[k]])
                       /\ collected_info'[AllPairs[k]] = OwnResult(AllPairs[k], metric_data')
         ]_vars

\* C1 witness: collect_metrics returned with the first and third query of
\* user_api failed and the queries between and after them holding their values.
C1_Witness ==
    /\ pc = "collected"
    /\ ~DRY_RUN
    /\ collected_info[<<SLI_NAME, "avg_total_request">>] = Unavailable
    /\ collected_info[<<SLI_NAME, "avg_successfull_request">>] = Float(1, 1)
    /\ collected_info[<<SLI_NAME, "avg_up_time">>] = Unavailable
    /\ collected_info[<<OTHER_SLI_NAME, "average_learning_rate">>] = Float(1, 1)
    /\ metric_data.kind = "data"

\* C2: after _evaluate_sli, a derived quantity with an unavailable raw sample
\* among its inputs has the not-a-number marker as value, never a number.
C2_UnavailableGivesNaN ==
    call = "_evaluate_sli" =>
        /\ (Total(sli) = Unavailable \/ Success(sli) = Unavailable)
              => html_inputs[PCT].value = NaN
        /\ sli[UP] = Unavailable => html_inputs[UP].value = NaN

\* The change the report must show for a difference delta.
SignedChange(delta) ==
    IF delta.num > 0 THEN ChangeStr(<<"+">> \o Format3f(PyAbs(delta)))
    ELSE IF delta.num < 0 THEN ChangeStr(<<"-">> \o Format3f(PyAbs(delta)))
    ELSE ChangeNum(Zero)

\* C3: after _report_sli, every column with numeric current and prior values
\* has as change "+" and the magnitude of current - prior with 3 decimals when
\* that is positive, a single "-" and the magnitude when it is negative, and
\* the bare 0 when it is zero.
C3_SignedChange ==
    call = "_report_sli" =>
        \A c \in SeqRange(sli_columns) :
            (IsFloat(html_inputs[c].value) /\ IsFloat(retrieved.row[c]))
               => html_inputs[c].change =
                     SignedChange(PySub(html_inputs[c].value, retrieved.row[c]))

\* C4: with last week's snapshot missing or unreadable, _report_sli does not
\* raise and returns the quantities with the change undefined.
C4_MissingSnapshotTolerated ==
    (call \in {"_report_sli", "_report_sli raised"} /\ retrieved.outcome # "row") =>
        /\ call = "_report_sli"
        /\ \A c \in SeqRange(sli_columns) : html_inputs[c].change = NoChange

\* C5: a snapshot row reaches the private or the public store only with its
\* columns equal, in order, to the indicator's declared columns; a data frame
\* with other columns (one appended, one missing, two swapped) is written to
\* neither store, no write is tried for it, and the step ends with an error.
C5_OnlyDeclaredColumnsWritten ==
    /\ \A w \in writes : w.columns = csv_columns(w.metric_class)
    /\ (metrics_df # NoFrame
          /\ metrics_df.columns # csv_columns(metrics_df.metric_class))
       => /\ pc = "raised"
          /\ error = "schema"
          /\ \A sink \in {"private", "public"} :
                <<sink, metrics_df.metric_class>> \notin write_attempts
          /\ \A w \in writes : w.metric_class # metrics_df.metric_class

\* C5 witness: the first indicator's row was written to both stores and the
\* second one's frame, with a column appended, ended the step.
C5_Witness ==
    /\ error = "schema"
    /\ metrics_df = [metric_class |-> OTHER_SLI_NAME,
                     columns |-> csv_columns(OTHER_SLI_NAME) \o <<"extra">>]
    /\ Cardinality(writes) = 2

StoreFailed(sink, metric_class) ==
    /\ <<sink, metric_class>> \in write_attempts
    /\ \A w \in writes : ~(w.sink = sink /\ w.metric_class = metric_class)

PushFailed ==
    push_calls = 1 /\ pushed = {}

SinkFailed ==
    \/ \E sink \in {"private", "public"}, mc \in SeqRange(report_sli_context) :
          StoreFailed(sink, mc)
    \/ PushFailed

\* The run is over: it returned, or report assembly or the mail server raised.
RunOver ==
    \/ pc = "run_done"
    \/ (pc = "raised" /\ error \in {"snapshot", "smtp"})

\* C6: sink failures are contained within a non-dry run.  No failure of a
\* store write or of the push ends the run; a row whose private write failed
\* is still offered to the public store; and when a run in which a sink
\* failed is over without a data frame having been rejected for its columns,
\* both stores were tried for every indicator, the push was tried, and the
\* report was generated for the mail if the run does not only store and its
\* day is the email day.
C6_SinkFailuresContained ==
    ~DRY_RUN =>
        /\ error \notin {"ceph", "pushgateway"}
        /\ \A mc \in SeqRange(report_sli_context) :
              StoreFailed("private", mc) => <<"public", mc>> \in write_attempts
        /\ (SinkFailed /\ RunOver) =>
              /\ \A mc \in SeqRange(report_sli_context), sink \in {"private", "public"} :
                    <<sink, mc>> \in write_attempts
              /\ push_calls = 1
              /\ (~ONLY_STORE_ON_CEPH /\ day_of_week = email_day)
                    => generate_calls = 1

\* C6 witness: a run in which the private write of the first indicator, the
\* public write of the second and the push all failed, and which still sent
\* the mail.
C6_Witness ==
    /\ pc = "run_done"
    /\ ~DRY_RUN
    /\ StoreFailed("private", SLI_NAME)
    /\ ~StoreFailed("public", SLI_NAME)
    /\ StoreFailed("public", OTHER_SLI_NAME)
    /\ PushFailed
    /\ emails_sent = 1

\* C7: _evaluate_sli guards the denominator of the ratio.  With
\* avg_total_request 0 or unavailable the percentage is 0, whatever
\* avg_successfull_request is; an unavailable avg_successfull_request with a
\* positive avg_total_request gives the not-a-number marker; and no input
\* makes the division fault.
C7_DenominatorGuarded ==
    call = "_evaluate_sli" =>
        /\ html_inputs[PCT].value.tag # "ZeroDivisionError"
        /\ (Total(sli) = Zero \/ Total(sli) = Unavailable)
              => html_inputs[PCT].value = Zero
        /\ (Success(sli) = Unavailable /\ IsFloat(Total(sli)) /\ Total(sli).num > 0)
              => html_inputs[PCT].value = NaN

\* C7 witness: evaluated with total = 0 and success = 0, giving 0.
C7_Witness ==
    /\ call = "_evaluate_sli"
    /\ Total(sli) = Zero
    /\ Success(sli) = Zero
    /\ html_inputs[PCT].value = Zero

\* What a dry run must not do: build the client, query the backend, store,
\* push or mail; and what it collects: 0.0 for every query.
DryRunTouchesNothing ==
    DRY_RUN =>
        /\ prometheus_connects = 0
        /\ backend_queries = {}
        /\ \A p \in DOMAIN collected_info : collected_info[p] = Zero
        /\ pc \in {"collected", "generate", "preview", "run_done"}
              => DOMAIN collected_info = SeqRange(AllPairs)
        /\ writes = {}
        /\ write_attempts = {}
        /\ gauges = NoMap
        /\ push_calls = 0
        /\ emails_sent = 0

\* C8: a dry run never reaches the metric backend, collects exactly 0.0 for
\* every (indicator, query), stores nothing, pushes nothing, sends no mail,
\* and every run it starts still assembles the report document.
C8_DryRunAssemblesReport ==
    /\ DryRunTouchesNothing
    /\ DRY_RUN =>
          /\ pc = "raised" => error = "config"
          /\ pc \in {"preview", "run_done"} => Len(message) = Len(report_sli_context)

\* C9: push_thoth_sli_periodic_metrics is called at most once in a run, and
\* when it has been, no gauge is set for an (indicator, metric name) whose
\* collected value is "ErrorMetricRetrieval", every other one has its gauge
\* set to its collected value, and what the gateway was handed is those gauges.
C9_SentinelNeverPublished ==
    /\ push_calls <= 1
    /\ push_calls = 0 => (gauges = NoMap /\ pushed = {})
    /\ push_calls = 1 =>
          /\ \A p \in SeqRange(AllPairs) :
                IF collected_info[p] = Unavailable
                THEN p \notin DOMAIN gauges
                ELSE p \in DOMAIN gauges /\ gauges[p] = collected_info[p]
          /\ DOMAIN gauges \subseteq SeqRange(AllPairs)
          /\ \A g \in pushed : g = gauges

\* C9 witness: the gateway was handed the gauges of a collection in which one
\* query of user_api failed and another returned 1.
C9_Witness ==
    /\ push_calls = 1
    /\ pushed # {}
    /\ collected_info[<<SLI_NAME, "avg_total_request">>] = Unavailable
    /\ collected_info[<<SLI_NAME, "avg_up_time">>] = Float(1, 1)
    /\ collected_info[<<OTHER_SLI_NAME, "average_learning_rate">>] = Unavailable

\* C10 as stated: with the store-only flag set, generate_email is never
\* called and no email is sent, whatever the other flags and the day.
C10_StoreOnlyNeverAssembles ==
    ONLY_STORE_ON_CEPH => (generate_calls = 0 /\ emails_sent = 0 /\ pc # "generate")

\* C10 amended: with the store-only flag set, no email is sent and none is
\* attempted, whatever the other flags and the day; generate_email is called
\* only when dry-run is set as well (the dry-run preview does not look at the
\* store-only flag).
C10_StoreOnlyNoEmail ==
    ONLY_STORE_ON_CEPH =>
        /\ emails_sent = 0
        /\ pc # "send"
        /\ ~DRY_RUN => (generate_calls = 0 /\ pc # "generate" /\ reports = 0)

\* C10 witness: a store-only run on the email day that is not a dry run has
\* stored and pushed and is over without a report.
C10_Witness ==
    /\ ONLY_STORE_ON_CEPH
    /\ ~DRY_RUN
    /\ day_of_week = email_day
    /\ pc = "run_done"
    /\ push_calls = 1
    /\ generate_calls = 0

\* C11: when the series collected for avg_successfull_request is pointwise
\* at most the series collected for avg_total_request, both non-negative, the
\* evaluated avg_percentage_successfull_request is a number from 0 to 100.
C11_PercentageWithin0And100 ==
    pc = "range_done" =>
        /\ IsFloat(html_inputs[PCT].value)
        /\ ~PyLt(html_inputs[PCT].value, Zero)
        /\ ~PyGt(html_inputs[PCT].value, Hundred)

\* Nothing of a run has happened: no query, store, push, report or email.
NoRunStarted ==
    /\ i = 0
    /\ day_of_week = "unset"
    /\ prometheus_connects = 0
    /\ backend_queries = {}
    /\ collected_info = NoMap
    /\ write_attempts = {}
    /\ writes = {}
    /\ push_calls = 0
    /\ pushed = {}
    /\ generate_calls = 0
    /\ reports = 0
    /\ emails_sent = 0

\* C12: one execution of main sends at most one email. With more than one
\* evaluation day and the store-only flag unset main raises before any run
\* starts; otherwise either a single run is executed, which sends an email
\* only when its day of week is the email day, or every run is store-only or
\* dry-run and sends none.
C12_AtMostOneEmail ==
    /\ emails_sent <= 1
    /\ (EVALUATION_METRICS_DAYS > 1 /\ ~ONLY_STORE_ON_CEPH) =>
          /\ pc \in {"main", "raised"}
          /\ pc = "raised" => error = "config"
          /\ NoRunStarted
    /\ ~(EVALUATION_METRICS_DAYS > 1 /\ ~ONLY_STORE_ON_CEPH) =>
          /\ error # "config"
          /\ ~ONLY_STORE_ON_CEPH =>
                /\ i <= 1
                /\ i = 1 => pc \in {"loop", "done"}
                /\ (pc = "send" \/ emails_sent = 1) =>
                      (~DRY_RUN /\ DayOfRun(0) = email_day)
                /\ pc = "send" => day_of_week = email_day
          /\ (ONLY_STORE_ON_CEPH \/ DRY_RUN) =>
                (emails_sent = 0 /\ pc # "send")

\* C12 witness: main is over after its single run, which sent the email.
C12_Witness ==
    /\ pc = "done"
    /\ EVALUATION_METRICS_DAYS = 1
    /\ i = 1
    /\ emails_sent = 1

====
